---- MODULE Spec2Model ----
(***************************************************************************)
(* Presentation API shim of slidyremote: transport negotiation on the      *)
(* controller (Google Cast first, window.open as fallback), the window     *)
(* handshake with the receiver page, and the session state machines.       *)
(* The model follows the latest revision of the shim (src/README.md,       *)
(* lines 614-1372).  Promise reactions run as jobs: while a job is         *)
(* pending no other event handler runs (microtask checkpoint).             *)
(***************************************************************************)
EXTENDS Integers, Sequences, FiniteSets, TLC

\* ---- bounds of the model
MaxFacades == 1
MaxCreates == 2
MaxProbes == 1
MaxUpdates == 1
MaxSends == 1
MaxCloses == 1
MaxReloads == 1
MaxInbound == 2
MaxReceiverCalls == 2
MaxReceiverPosts == 1
MaxStrangers == 2
MaxLiveness == 2
MaxQueued == 2

\* ---- input sets
\* facades are numbered in the order of their construction; the negotiation
\* specification builds up to MaxCreates of them
Facades == 1..MaxCreates
Urls == {"receiver.html", "other.html"}
\* castId values seen in sender.js: a real identifier and the empty string
CastIds == {"06F76BDC", ""}
Undefined == "undefined"
Payloads == {"open", "next"}
Tokens == {"ispresentation", "presentation", "presentationready", "receivershutdown"}
NoJob == [kind |-> "none", f |-> 0]
NoCall == [op |-> "none", f |-> 0]
NoRegistration == [url |-> "none", id |-> "none", prev |-> "none"]
\* commands a controller may send: the ones of Payloads and one that names no
\* operation of the controlled Slidy instance
Commands == Payloads \cup {"bogus"}
\* operations of the controlled Slidy instance
Operations == {"next"}
\* message.params: absent, or an argument list
Params == {"absent", "args"}

VARIABLES
  castApiAvailable,     \* Cast sender library reported as loaded
  castApiInitialized,   \* chrome.cast.initialize success callback has run
  castApplications,     \* url -> Cast application id
  registering,          \* the registration just made (url, id, previous entry), until
                        \* the application's next call
  nFacades,             \* number of PresentationSession objects constructed
  facadeUrl,            \* PresentationSession.url
  facadeSession,        \* PresentationSession.session: "none" | "cast" | "window"
  facadeState,          \* PresentationSession.state
  facadeOnmessage,      \* the application assigned PresentationSession.onmessage
  facadeOnstatechange,  \* the application assigned PresentationSession.onstatechange
  castPromise,          \* promise of CastPresentationSession.create
  sessionCreated,       \* closure flag of CastPresentationSession.create
  initialize,           \* chrome.cast.initialize call of this create: none|pending|ok|error
  sessionListenerCalled,\* the library calls sessionListener at most once
  probes,               \* receiverListener notifications received
  requestsPending,      \* chrome.cast.requestSession calls awaiting a callback
  requestsIssued,       \* chrome.cast.requestSession calls made by this create
  castWrappers,         \* CastPresentationSession objects constructed by this create
  castState,            \* state of the CastPresentationSession bound to the facade
  castSent,             \* payloads handed to chrome.cast.Session.sendMessage
  castStopped,          \* chrome.cast.Session.stop was called
  castUpdates,          \* liveness updates received
  lastAlive,            \* the latest of them: none | alive | notAlive
  presentationWindow,   \* result of window.open: none | null | open | closed
  windowPromise,        \* promise of WindowPresentationSession.create
  windowSessions,       \* controller-side WindowPresentationSession objects constructed
  windowState,          \* state of the first of them (the one create resolves with)
  replied,              \* the listener of create posted 'presentation' to the window
  readyReceived,        \* 'presentationready' arrived from the window
  page,                 \* receiver page: none | loading | waiting | ready | gone
  onpresent,            \* the receiver application assigned navigator.presentation.onpresent
  receiverOnmessage,    \* the receiver application assigned session.onmessage
  receiverState,        \* state of the receiver-side WindowPresentationSession
  reloads,              \* reloads of the receiver page
  toOpener,             \* message events queued from the window to its opener
  toWindow,             \* message events queued from the opener to the window
  stateChanges,         \* invocations of the application's facade onstatechange
  everConnected,        \* the facade's state has been connected
  received,             \* messages given to the application's facade onmessage
  receiverReceived,     \* messages given to the receiver application's onmessage
  job,                  \* pending promise reaction of the negotiation
  sends,                \* payloads posted by the applications so far
  lastCall,             \* the latest call or post of an application
  closeCalls,           \* calls of PresentationSession.close
  released,             \* ... and it released an inner session
  thrown,               \* an uncaught exception was raised
  strangers,            \* message events received from windows that are not the peer
  \* -- receiver page running the shim (Presentation bootstrapper)
  runningOnChromecast,  \* the user agent string matches /CrKey/
  opener,               \* window.opener is set
  castStart,            \* promise of CastPresentationSession.startReceiver
  windowStart,          \* promise of WindowPresentationSession.startReceiver
  bootJob,              \* pending reaction: none | fallback | present | notreceiver
  castReceiverManager,  \* none | started | ready | stopped
  listening,            \* messageEventListener of startReceiver is registered
  pageLoaded,           \* the load event of the page has fired
  pageUnloaded,         \* the unload event of the page has fired
  presentHandler,       \* the application assigned navigator.presentation.onpresent
  presentEvents,        \* invocations of onpresent
  presentedSession,     \* the session the latest onpresent event carried
  bootSession,          \* the session the start promise resolved with: none|cast|window
  bootState,            \* its state
  bootOnmessage,        \* the application assigned its onmessage
  bootOnstatechange,    \* the application assigned its onstatechange
  bootStateChanges,     \* invocations of that onstatechange
  broadcasts,           \* messages broadcast on the Cast message bus
  openerInbox,          \* messages posted to window.opener
  openerClosed,         \* window.opener.close() was called
  inbound,              \* message events received from the controller
  lastInbound,          \* the latest of them
  receiverCalls,        \* calls of close() by the receiver application on its session
  receiverPosts,        \* calls of postMessage by the receiver application on it
  lastPost,             \* the payload of the latest of them
  iframeSrc,            \* receiver.js: iframe.src
  controlledSlidy,      \* receiver.js: the iframe has loaded its Slidy instance
  slidyCalls,           \* operations invoked on the controlled Slidy instance
  appThrown             \* the onmessage handler of receiver.js raised an exception

globalVars == <<castApiAvailable, castApiInitialized, castApplications, registering>>
facadeVars == <<nFacades, facadeUrl, facadeSession, facadeState, facadeOnmessage,
                facadeOnstatechange>>
createVars == <<castPromise, sessionCreated, initialize, sessionListenerCalled, probes,
                requestsPending, requestsIssued, castWrappers>>
castVars == <<castState, castSent, castStopped, castUpdates, lastAlive>>
windowVars == <<presentationWindow, windowPromise, windowSessions, windowState, replied,
                readyReceived>>
pageVars == <<page, onpresent, receiverOnmessage, receiverState, reloads>>
channelVars == <<toOpener, toWindow>>
appVars == <<stateChanges, everConnected, received, receiverReceived>>
callVars == <<sends, lastCall, closeCalls, released, thrown>>
controllerVars == <<globalVars, facadeVars, createVars, castVars, windowVars, pageVars,
                    channelVars, appVars, callVars, job, strangers>>
startVars == <<runningOnChromecast, opener, castStart, windowStart, castReceiverManager,
               listening, pageLoaded, pageUnloaded, presentHandler>>
sessionVars == <<presentEvents, presentedSession, bootSession, bootState, bootOnmessage,
                 bootOnstatechange, bootStateChanges>>
outVars == <<broadcasts, openerInbox, openerClosed>>
slidyVars == <<iframeSrc, controlledSlidy, slidyCalls, appThrown>>
postVars == <<receiverPosts, lastPost>>
bootVars == <<startVars, sessionVars, outVars, slidyVars, bootJob, inbound, lastInbound,
              receiverCalls, postVars>>
vars == <<controllerVars, bootVars>>

Init ==
  /\ castApiAvailable = FALSE
  /\ castApiInitialized = FALSE
  /\ castApplications = [u \in Urls |-> Undefined]
  /\ registering = NoRegistration
  /\ nFacades = 0
  /\ facadeUrl = [f \in Facades |-> Undefined]
  /\ facadeSession = [f \in Facades |-> "none"]
  /\ facadeState = [f \in Facades |-> "none"]
  /\ facadeOnmessage = [f \in Facades |-> FALSE]
  /\ facadeOnstatechange = [f \in Facades |-> FALSE]
  /\ castPromise = [f \in Facades |-> "none"]
  /\ sessionCreated = [f \in Facades |-> FALSE]
  /\ initialize = [f \in Facades |-> "none"]
  /\ sessionListenerCalled = [f \in Facades |-> FALSE]
  /\ probes = [f \in Facades |-> 0]
  /\ requestsPending = [f \in Facades |-> 0]
  /\ requestsIssued = [f \in Facades |-> 0]
  /\ castWrappers = [f \in Facades |-> 0]
  /\ castState = [f \in Facades |-> "none"]
  /\ castSent = [f \in Facades |-> <<>>]
  /\ castStopped = [f \in Facades |-> FALSE]
  /\ castUpdates = [f \in Facades |-> 0]
  /\ lastAlive = [f \in Facades |-> "none"]
  /\ presentationWindow = [f \in Facades |-> "none"]
  /\ windowPromise = [f \in Facades |-> "none"]
  /\ windowSessions = [f \in Facades |-> 0]
  /\ windowState = [f \in Facades |-> "none"]
  /\ replied = [f \in Facades |-> FALSE]
  /\ readyReceived = [f \in Facades |-> FALSE]
  /\ page = [f \in Facades |-> "none"]
  /\ onpresent = [f \in Facades |-> FALSE]
  /\ receiverOnmessage = [f \in Facades |-> FALSE]
  /\ receiverState = [f \in Facades |-> "none"]
  /\ reloads = [f \in Facades |-> 0]
  /\ toOpener = [f \in Facades |-> <<>>]
  /\ toWindow = [f \in Facades |-> <<>>]
  /\ stateChanges = [f \in Facades |-> 0]
  /\ everConnected = [f \in Facades |-> FALSE]
  /\ received = [f \in Facades |-> <<>>]
  /\ receiverReceived = [f \in Facades |-> <<>>]
  /\ job = NoJob
  /\ sends = 0
  /\ lastCall = NoCall
  /\ closeCalls = [f \in Facades |-> 0]
  /\ released = [f \in Facades |-> FALSE]
  /\ thrown = FALSE
  /\ strangers = <<>>
  /\ runningOnChromecast = FALSE
  /\ opener = FALSE
  /\ castStart = "none"
  /\ windowStart = "none"
  /\ bootJob = "none"
  /\ castReceiverManager = "none"
  /\ listening = FALSE
  /\ pageLoaded = FALSE
  /\ pageUnloaded = FALSE
  /\ presentHandler = FALSE
  /\ presentEvents = 0
  /\ presentedSession = "none"
  /\ bootSession = "none"
  /\ bootState = "none"
  /\ bootOnmessage = FALSE
  /\ bootOnstatechange = FALSE
  /\ bootStateChanges = 0
  /\ broadcasts = <<>>
  /\ openerInbox = <<>>
  /\ openerClosed = FALSE
  /\ inbound = 0
  /\ lastInbound = [d |-> "none", params |-> "absent"]
  /\ receiverCalls = 0
  /\ receiverPosts = 0
  /\ lastPost = "none"
  /\ iframeSrc = "none"
  /\ controlledSlidy = FALSE
  /\ slidyCalls = <<>>
  /\ appThrown = FALSE

\* ---- library availability and registration table

\* window['__onGCastApiAvailable']
OnGCastApiAvailable(loaded) ==
  /\ job = NoJob
  /\ nFacades = 0
  /\ ~castApiAvailable
  /\ castApiAvailable' = IF loaded THEN TRUE ELSE castApiAvailable
  /\ UNCHANGED <<castApiInitialized, castApplications, registering, facadeVars, createVars,
                 castVars, windowVars, pageVars, channelVars, appVars, callVars, job>>
  /\ UNCHANGED <<bootVars, strangers>>

\* a registration that keeps the first identifier of a url
RegisterEntry_KeepFirst(table, url, id) ==
  IF table[url] = Undefined THEN [table EXCEPT ![url] = id] ELSE table

\* castApplications[url] = id
RegisterEntry(table, url, id) == [table EXCEPT ![url] = id]

\* CastPresentationSession.registerCastApplication: castApplications[url] = id
registerCastApplication(url, id) ==
  /\ job = NoJob
  /\ nFacades = 0
  /\ castApplications' = RegisterEntry(castApplications, url, id)
  /\ registering' = [url |-> url, id |-> id, prev |-> castApplications[url]]
  /\ UNCHANGED <<castApiAvailable, castApiInitialized, facadeVars, createVars, castVars,
                 windowVars, pageVars, channelVars, appVars, callVars, job>>
  /\ UNCHANGED <<bootVars, strangers>>

\* JavaScript truthiness of castApplications[url]: undefined and "" are falsy
Registered(url) == castApplications[url] # Undefined /\ castApplications[url] # ""

\* create without the registration check
CastCreatePossible_NoLookup(url) == castApiAvailable

\* the two early checks of CastPresentationSession.create
CastCreatePossible(url) == castApiAvailable /\ Registered(url)

\* ---- promise settlement of CastPresentationSession.create

\* the handlers of the first then() swapped
FallbackOn_Swapped(outcome) == outcome = "resolved"

\* which handler of the first then() of the negotiation calls
\* WindowPresentationSession.create: the rejection handler
FallbackOn(outcome) == outcome = "rejected"

\* the reaction queued when the create promise of f settles with outcome
Reaction(f, outcome) ==
  IF FallbackOn(outcome) THEN [kind |-> "fallback", f |-> f]
  ELSE [kind |-> "bind", f |-> f]

\* a promise that every call of resolve() or reject() settles anew
SettlesPromise_Always(promise) == TRUE

\* a call of resolve() or reject() settles a promise that is still pending
SettlesPromise(promise) == promise = "pending"

\* resolve()/reject() of the create promise: only the first call settles it
SettleCast(f, outcome) ==
  IF SettlesPromise(castPromise[f])
  THEN /\ castPromise' = [castPromise EXCEPT ![f] = outcome]
       /\ job' = Reaction(f, outcome)
  ELSE UNCHANGED <<castPromise, job>>

\* a constructor that leaves the state unset
ResolvedCastState_Unset(f) == castState

\* state of the wrapper the create promise resolves with: the constructor
\* sets it to connected
ResolvedCastState(f) ==
  IF castPromise[f] = "pending" THEN [castState EXCEPT ![f] = "connected"] ELSE castState

\* ---- PresentationSession constructor and CastPresentationSession.create

\* a create that initializes the library on every call
SkipsInitialize_Never(initialized) == FALSE

\* "if (castApiInitialized)": create calls requestSession directly
SkipsInitialize(initialized) == initialized

\* new PresentationSession(url) while fewer than max facades exist, with the
\* synchronous part of CastPresentationSession.create; in the same task the
\* application assigns onstatechange (sender.js) and possibly onmessage
Request(url, hm, max) ==
  LET f == nFacades + 1 IN
  /\ job = NoJob
  /\ nFacades < max
  /\ nFacades' = f
  /\ registering' = NoRegistration
  /\ facadeUrl' = [facadeUrl EXCEPT ![f] = url]
  /\ facadeState' = [facadeState EXCEPT ![f] = "disconnected"]
  /\ facadeOnmessage' = [facadeOnmessage EXCEPT ![f] = hm]
  /\ facadeOnstatechange' = [facadeOnstatechange EXCEPT ![f] = TRUE]
  /\ IF ~CastCreatePossible(url)
     THEN /\ castPromise' = [castPromise EXCEPT ![f] = "rejected"]
          /\ job' = Reaction(f, "rejected")
          /\ UNCHANGED <<initialize, requestsPending, requestsIssued>>
     ELSE /\ castPromise' = [castPromise EXCEPT ![f] = "pending"]
          /\ job' = NoJob
          /\ IF SkipsInitialize(castApiInitialized)
             THEN /\ requestsPending' = [requestsPending EXCEPT ![f] = @ + 1]
                  /\ requestsIssued' = [requestsIssued EXCEPT ![f] = @ + 1]
                  /\ UNCHANGED initialize
             ELSE /\ initialize' = [initialize EXCEPT ![f] = "pending"]
                  /\ UNCHANGED <<requestsPending, requestsIssued>>
  /\ UNCHANGED <<castApiAvailable, castApiInitialized, castApplications, facadeSession,
                 sessionCreated, sessionListenerCalled, probes, castWrappers, castVars,
                 windowVars, pageVars, channelVars, appVars,
                 callVars>>
  /\ UNCHANGED <<bootVars, strangers>>

\* navigator.presentation.requestSession(url)
requestSession(url, hm) == Request(url, hm, MaxFacades)

\* success callback of chrome.cast.initialize
initializeSuccess(f) ==
  /\ job = NoJob
  /\ initialize[f] = "pending"
  /\ initialize' = [initialize EXCEPT ![f] = "ok"]
  /\ castApiInitialized' = TRUE
  /\ UNCHANGED <<castApiAvailable, castApplications, registering, facadeVars, castPromise,
                 sessionCreated, sessionListenerCalled, probes, requestsPending,
                 requestsIssued, castWrappers, castVars, windowVars,
                 pageVars, channelVars, appVars, callVars, job>>
  /\ UNCHANGED <<bootVars, strangers>>

\* error callback of chrome.cast.initialize
initializeError(f) ==
  /\ job = NoJob
  /\ initialize[f] = "pending"
  /\ initialize' = [initialize EXCEPT ![f] = "error"]
  /\ SettleCast(f, "rejected")
  /\ UNCHANGED <<globalVars, facadeVars, sessionCreated, sessionListenerCalled, probes,
                 requestsPending, requestsIssued, castWrappers, castVars,
                 windowVars, pageVars, channelVars, appVars, callVars>>
  /\ UNCHANGED <<bootVars, strangers>>

\* apiConfig's sessionListener: a running Cast session may be resumed
sessionListener(f) ==
  /\ job = NoJob
  /\ initialize[f] = "ok"
  /\ ~sessionListenerCalled[f]
  /\ sessionListenerCalled' = [sessionListenerCalled EXCEPT ![f] = TRUE]
  /\ sessionCreated' = [sessionCreated EXCEPT ![f] = TRUE]
  /\ castWrappers' = [castWrappers EXCEPT ![f] = @ + 1]
  /\ castState' = ResolvedCastState(f)
  /\ SettleCast(f, "resolved")
  /\ UNCHANGED <<globalVars, facadeVars, initialize, probes, requestsPending,
                 requestsIssued, castSent, castStopped, castUpdates, lastAlive,
                 windowVars, pageVars, channelVars, appVars, callVars>>
  /\ UNCHANGED <<bootVars, strangers>>

\* apiConfig's receiverListener: device availability notification
receiverListener(f, available) ==
  /\ job = NoJob
  /\ initialize[f] = "ok"
  /\ probes[f] < MaxProbes
  /\ probes' = [probes EXCEPT ![f] = @ + 1]
  /\ IF sessionCreated[f]
     THEN UNCHANGED <<castPromise, job, requestsPending, requestsIssued>>
     ELSE /\ IF ~available THEN SettleCast(f, "rejected")
                            ELSE UNCHANGED <<castPromise, job>>
          \* no return after reject(): requestSession() is called in both cases
          /\ requestsPending' = [requestsPending EXCEPT ![f] = @ + 1]
          /\ requestsIssued' = [requestsIssued EXCEPT ![f] = @ + 1]
  /\ UNCHANGED <<globalVars, facadeVars, sessionCreated, initialize,
                 sessionListenerCalled, castWrappers, castVars,
                 windowVars, pageVars, channelVars, appVars, callVars>>
  /\ UNCHANGED <<bootVars, strangers>>

\* success callback of chrome.cast.requestSession
requestSessionSuccess(f) ==
  /\ job = NoJob
  /\ requestsPending[f] > 0
  /\ requestsPending' = [requestsPending EXCEPT ![f] = @ - 1]
  /\ sessionCreated' = [sessionCreated EXCEPT ![f] = TRUE]
  /\ castWrappers' = [castWrappers EXCEPT ![f] = @ + 1]
  /\ castState' = ResolvedCastState(f)
  /\ SettleCast(f, "resolved")
  /\ UNCHANGED <<globalVars, facadeVars, initialize, sessionListenerCalled, probes,
                 requestsIssued, castSent, castStopped, castUpdates, lastAlive,
                 windowVars, pageVars, channelVars, appVars, callVars>>
  /\ UNCHANGED <<bootVars, strangers>>

\* error callback of chrome.cast.requestSession
requestSessionError(f) ==
  /\ job = NoJob
  /\ requestsPending[f] > 0
  /\ requestsPending' = [requestsPending EXCEPT ![f] = @ - 1]
  /\ IF sessionCreated[f] THEN UNCHANGED <<castPromise, job>>
                          ELSE SettleCast(f, "rejected")
  /\ UNCHANGED <<globalVars, facadeVars, sessionCreated, initialize,
                 sessionListenerCalled, probes, requestsIssued, 
                 castWrappers, castVars, windowVars, pageVars, channelVars, appVars,
                 callVars>>
  /\ UNCHANGED <<bootVars, strangers>>

\* ---- WindowPresentationSession (controller side)

PageLive(f) == page[f] \in {"loading", "waiting", "early", "ready"}
PageHasSession(f) == page[f] \in {"early", "ready"}

\* remoteWindow.postMessage(m, '*'): the event is queued for the document
\* the window currently shows; nothing is queued for an unloaded one
PostToWindow(f, m) ==
  IF PageLive(f) THEN [toWindow EXCEPT ![f] = Append(@, m)] ELSE toWindow

\* invocation of the handler the application assigned to the facade's onstatechange
Notified(f) == IF facadeOnstatechange[f] THEN [stateChanges EXCEPT ![f] = @ + 1]
               ELSE stateChanges

\* a create that takes any result of window.open for a window
OpenFailed_Never(w) == FALSE

\* the window.open result that makes WindowPresentationSession.create reject
OpenFailed(w) == w = "null"

\* first then(): the rejection handler calls WindowPresentationSession.create(url)
RunFallback(w, hp) ==
  LET f == job.f IN
  /\ job.kind = "fallback"
  /\ presentationWindow' = [presentationWindow EXCEPT ![f] = w]
  /\ IF OpenFailed(w)
     THEN /\ windowPromise' = [windowPromise EXCEPT ![f] = "rejected"]
          /\ job' = [kind |-> "fail", f |-> f]
     ELSE /\ windowPromise' = [windowPromise EXCEPT ![f] = "pending"]
          /\ job' = NoJob
  \* an opened window loads the receiver application, whose shim registers the
  \* listeners of WindowPresentationSession.startReceiver (window.opener is set)
  /\ page' = [page EXCEPT ![f] = IF w = "open" THEN "loading" ELSE @]
  /\ onpresent' = [onpresent EXCEPT ![f] = (w = "open") /\ hp]
  /\ UNCHANGED <<globalVars, facadeVars, createVars, castVars, windowSessions,
                 windowState, replied, readyReceived, receiverOnmessage, receiverState,
                 reloads, channelVars, appVars, callVars>>
  /\ UNCHANGED <<bootVars, strangers>>

\* a bind that never notifies
BindNotifies_Never(st) == FALSE

\* "if (that.state === 'connected')": the bind notifies the application when
\* the state it copied from the inner session is connected
BindNotifies(st) == st = "connected"

\* a facade that keeps its initial state when it is given its session
MirroredState_Default(st) == "disconnected"

\* "that.state = session.state"
MirroredState(st) == st

\* second then(), success handler: bind the session into the facade
RunBind ==
  LET f == job.f
      inner == IF windowPromise[f] = "resolved" THEN "window" ELSE "cast"
      st == IF inner = "window" THEN windowState[f] ELSE castState[f]
  IN
  /\ job.kind = "bind"
  /\ job' = NoJob
  /\ facadeSession' = [facadeSession EXCEPT ![f] = inner]
  /\ facadeState' = [facadeState EXCEPT ![f] = MirroredState(st)]
  /\ stateChanges' = IF BindNotifies(st) THEN Notified(f) ELSE stateChanges
  /\ everConnected' = [everConnected EXCEPT ![f] = @ \/ st = "connected"]
  /\ UNCHANGED <<globalVars, nFacades, facadeUrl, facadeOnmessage, facadeOnstatechange,
                 createVars, castVars, windowVars, pageVars, channelVars, received,
                 receiverReceived, callVars>>
  /\ UNCHANGED <<bootVars, strangers>>

\* a failure handler that reports a connection
FailedState_Connected == "connected"

\* the state the failure handler of the negotiation assigns to the facade
FailedState == "disconnected"

\* second then(), failure handler
RunFail ==
  LET f == job.f IN
  /\ job.kind = "fail"
  /\ job' = NoJob
  /\ facadeState' = [facadeState EXCEPT ![f] = FailedState]
  /\ stateChanges' = Notified(f)
  /\ everConnected' = [everConnected EXCEPT ![f] = @ \/ FailedState = "connected"]
  /\ UNCHANGED <<globalVars, nFacades, facadeUrl, facadeSession, facadeOnmessage,
                 facadeOnstatechange, createVars, castVars, windowVars, pageVars,
                 channelVars, received, receiverReceived, callVars>>
  /\ UNCHANGED <<bootVars, strangers>>

\* a listener of create that resolves on the first handshake message
CreateResolvesOn_First(d) == d = "ispresentation"

\* the message on which the listener of WindowPresentationSession.create resolves
CreateResolvesOn(d) == d = "presentationready"

\* a session listener with the test on 'receivershutdown' inverted
SessionForwards_Inverted(d) == d = "receivershutdown"

\* the messages the listener of a WindowPresentationSession gives to onmessage
SessionForwards(d) == d # "receivershutdown"

\* the sender of a message event in the controller: the window a create call
\* opened is named by the number of its facade, any other window by 0
Stranger == 0

\* listeners that do not look at the source of the event
FromTrackedWindow_Any(source, f) == TRUE

\* "event.source === presentationWindow" (listener of create) and
\* "event.source === remoteWindow" (listener of the session)
FromTrackedWindow(source, f) == source = f

\* a controller that answers with the token it received
ReplyToken_Echo == "ispresentation"

\* presentationWindow.postMessage('presentation', '*')
ReplyToken == "presentation"

\* a session that stays connected when its receiver shuts down
ShutdownState_Connected == "connected"

\* "that.state = 'disconnected'" on 'receivershutdown'
ShutdownState == "disconnected"

\* what the message listeners of the negotiation of f do with data d of an
\* event that passed their test of the source: the listener of create runs
\* first, then the listeners of the sessions that existed when the dispatch
\* began
ControllerListeners(f, d) ==
  LET resolves == CreateResolvesOn(d) /\ SettlesPromise(windowPromise[f])
      tracked == windowSessions[f] >= 1
  IN
  /\ toWindow' = IF d = "ispresentation" THEN PostToWindow(f, ReplyToken)
                 ELSE toWindow
  /\ replied' = [replied EXCEPT ![f] = @ \/ d = "ispresentation"]
  /\ readyReceived' = [readyReceived EXCEPT ![f] = @ \/ d = "presentationready"]
  /\ windowSessions' = IF CreateResolvesOn(d) THEN [windowSessions EXCEPT ![f] = @ + 1]
                       ELSE windowSessions
  /\ windowPromise' = IF resolves THEN [windowPromise EXCEPT ![f] = "resolved"]
                      ELSE windowPromise
  /\ job' = IF resolves THEN [kind |-> "bind", f |-> f] ELSE NoJob
  /\ windowState' = IF resolves THEN [windowState EXCEPT ![f] = "connected"]
                    ELSE IF tracked /\ ~SessionForwards(d)
                    THEN [windowState EXCEPT ![f] = ShutdownState]
                    ELSE windowState
  /\ IF tracked /\ ~SessionForwards(d)
     THEN /\ facadeState' = [facadeState EXCEPT ![f] = ShutdownState]
          /\ stateChanges' = Notified(f)
          /\ UNCHANGED received
     ELSE /\ received' = IF tracked /\ facadeOnmessage[f]
                         THEN [received EXCEPT ![f] = Append(@, d)] ELSE received
          /\ UNCHANGED <<facadeState, stateChanges>>

\* what the listeners leave alone, and what they leave alone when the test of
\* the source fails
ControllerListenersFrame ==
  UNCHANGED <<globalVars, nFacades, facadeUrl, facadeSession, facadeOnmessage,
              facadeOnstatechange, createVars, castVars, presentationWindow, pageVars,
              everConnected, receiverReceived, callVars, bootVars>>
ControllerListenersSkip ==
  UNCHANGED <<toWindow, replied, readyReceived, windowSessions, windowPromise, job,
              windowState, facadeState, stateChanges, received>>

\* listeners that every message event reaches, whatever its source
ListenersReached_All(source) == Facades

\* the negotiations whose listeners accept a message event from source: every
\* listener registered on the controller's window is called, and each tests
\* the source against the window of its own closure
ListenersReached(source) == {g \in Facades : FromTrackedWindow(source, g)}

\* a message event from the presentation window of f is dispatched in the
\* controller.  The windows are distinct objects, so the listeners of at most
\* one negotiation accept the event.
ControllerMessage(f) ==
  /\ job = NoJob
  /\ toOpener[f] # <<>>
  /\ toOpener' = [toOpener EXCEPT ![f] = Tail(@)]
  /\ IF ListenersReached(f) = {} THEN ControllerListenersSkip
     ELSE \E g \in ListenersReached(f) : ControllerListeners(g, Head(toOpener[f]))
  /\ ControllerListenersFrame
  /\ UNCHANGED strangers

\* a message event from a window that no create call of this page opened is
\* dispatched in the controller while the listeners of f are registered
StrangerMessage(f, d) ==
  /\ job = NoJob
  /\ presentationWindow[f] \in {"open", "closed"}
  /\ Len(strangers) < MaxStrangers
  /\ strangers' = Append(strangers, [to |-> "controller", d |-> d])
  /\ IF FromTrackedWindow(Stranger, f) THEN ControllerListeners(f, d)
                                       ELSE ControllerListenersSkip
  /\ ControllerListenersFrame
  /\ UNCHANGED toOpener

\* ---- receiver page (WindowPresentationSession.startReceiver, Presentation)

\* 'load' listener: window.opener.postMessage('ispresentation', '*')
PageLoad(f) ==
  /\ job = NoJob
  /\ page[f] \in {"loading", "early"}
  /\ page' = [page EXCEPT ![f] = IF @ = "loading" THEN "waiting" ELSE "ready"]
  /\ toOpener' = [toOpener EXCEPT ![f] = Append(@, "ispresentation")]
  /\ UNCHANGED <<globalVars, facadeVars, createVars, castVars, windowVars, onpresent,
                 receiverOnmessage, receiverState, reloads, toWindow, appVars, callVars,
                 job>>
  /\ UNCHANGED <<bootVars, strangers>>

\* payloads the receiver application posts from its onpresent handler
EarlyPosts(early) == IF early = "none" THEN <<>> ELSE <<early>>

\* a bootstrapper that announces the page before it dispatches onpresent
ReadyAfterPresent_Before(posts) == <<"presentationready">> \o posts

\* what the success handler of the bootstrapper causes to be posted: the
\* posts of the onpresent handler, then session.postMessage('presentationready')
ReadyAfterPresent(posts) == posts \o <<"presentationready">>

\* "event.source === window.opener" (messageEventListener) and
\* "event.source === remoteWindow" (listener of the receiver's session)
FromOpener(source) == source = "opener"

\* what the message listeners of the receiver page do with data d of an event
\* that passed their test of the source.  Before the session exists
\* messageEventListener handles it: on 'presentation' it resolves with a new
\* session, the bootstrapper dispatches onpresent (the application assigns
\* session.onmessage and may post) and then posts 'presentationready'.
\* Afterwards the session's listener handles it.
PageListeners(f, d, early) ==
  /\ IF ~PageHasSession(f) /\ d = "presentation"
     THEN /\ early # "none" => (onpresent[f] /\ sends < MaxSends)
          /\ page' = [page EXCEPT ![f] = IF @ = "loading" THEN "early" ELSE "ready"]
          /\ receiverState' = [receiverState EXCEPT ![f] = "connected"]
          /\ receiverOnmessage' = [receiverOnmessage EXCEPT ![f] = onpresent[f]]
          /\ toOpener' = [toOpener EXCEPT ![f] = @ \o ReadyAfterPresent(EarlyPosts(early))]
          /\ sends' = IF early = "none" THEN sends ELSE sends + 1
          /\ lastCall' = IF early = "none" THEN lastCall
                         ELSE [op |-> "receiverPost", f |-> f]
          /\ UNCHANGED receiverReceived
     ELSE /\ early = "none"
          /\ receiverState' = IF PageHasSession(f) /\ ~SessionForwards(d)
                              THEN [receiverState EXCEPT ![f] = "disconnected"]
                              ELSE receiverState
          /\ receiverReceived' =
               IF PageHasSession(f) /\ SessionForwards(d) /\ receiverOnmessage[f]
               THEN [receiverReceived EXCEPT ![f] = Append(@, d)] ELSE receiverReceived
          /\ UNCHANGED <<page, receiverOnmessage, toOpener, sends, lastCall>>

\* what the listeners of the page leave alone, and what they leave alone when
\* the test of the source fails
PageListenersFrame ==
  UNCHANGED <<globalVars, facadeVars, createVars, castVars, windowVars, onpresent,
              reloads, stateChanges, everConnected, received, closeCalls, released,
              thrown, job, bootVars>>
PageListenersSkip ==
  UNCHANGED <<page, receiverState, receiverOnmessage, toOpener, sends, lastCall,
              receiverReceived>>

\* a message event from the opener is dispatched in the receiver page
ReceiverMessage(f, early) ==
  /\ job = NoJob
  /\ PageLive(f)
  /\ toWindow[f] # <<>>
  /\ toWindow' = [toWindow EXCEPT ![f] = Tail(@)]
  /\ IF FromOpener("opener") THEN PageListeners(f, Head(toWindow[f]), early)
                             ELSE early = "none" /\ PageListenersSkip
  /\ PageListenersFrame
  /\ UNCHANGED strangers

\* a message event from a window that is not the opener is dispatched in the
\* receiver page
StrangerToPage(f, d) ==
  /\ job = NoJob
  /\ PageLive(f)
  /\ Len(strangers) < MaxStrangers
  /\ strangers' = Append(strangers, [to |-> "page", d |-> d])
  /\ IF FromOpener("stranger") THEN PageListeners(f, d, "none") ELSE PageListenersSkip
  /\ PageListenersFrame
  /\ UNCHANGED toWindow

\* 'unload' listener: window.opener.postMessage('receivershutdown', '*');
\* the events still queued for the unloaded document are never dispatched
PageUnload(f) ==
  /\ job = NoJob
  /\ PageLive(f)
  /\ page' = [page EXCEPT ![f] = "gone"]
  /\ toOpener' = [toOpener EXCEPT ![f] = Append(@, "receivershutdown")]
  /\ toWindow' = [toWindow EXCEPT ![f] = <<>>]
  /\ receiverState' = [receiverState EXCEPT ![f] = "none"]
  /\ receiverOnmessage' = [receiverOnmessage EXCEPT ![f] = FALSE]
  /\ onpresent' = [onpresent EXCEPT ![f] = FALSE]
  /\ UNCHANGED <<globalVars, facadeVars, createVars, castVars, windowVars, reloads,
                 appVars, callVars, job>>
  /\ UNCHANGED <<bootVars, strangers>>

\* a script of the document shown in the presentation window calls
\* window.opener.postMessage(d, '*') itself, outside the handshake of the
\* shim, while the controller's create is pending
WindowPosts(f, d) ==
  /\ job = NoJob
  /\ PageLive(f)
  /\ windowPromise[f] = "pending"
  /\ Len(toOpener[f]) < MaxQueued
  /\ Len(toWindow[f]) < MaxQueued
  /\ toOpener' = [toOpener EXCEPT ![f] = Append(@, d)]
  /\ UNCHANGED <<globalVars, facadeVars, createVars, castVars, windowVars, pageVars,
                 toWindow, appVars, callVars, job>>
  /\ UNCHANGED <<bootVars, strangers>>

\* the presentation window loads the receiver application again
PageReload(f, hp) ==
  /\ job = NoJob
  /\ page[f] = "gone"
  /\ presentationWindow[f] = "open"
  /\ reloads[f] < MaxReloads
  /\ reloads' = [reloads EXCEPT ![f] = @ + 1]
  /\ page' = [page EXCEPT ![f] = "loading"]
  /\ onpresent' = [onpresent EXCEPT ![f] = hp]
  /\ UNCHANGED <<globalVars, facadeVars, createVars, castVars, windowVars,
                 receiverOnmessage, receiverState, channelVars, appVars, callVars, job>>
  /\ UNCHANGED <<bootVars, strangers>>

\* the receiver application calls postMessage on the session it was given
ReceiverPostMessage(f, m) ==
  /\ job = NoJob
  /\ PageHasSession(f)
  /\ sends < MaxSends
  /\ sends' = sends + 1
  /\ lastCall' = [op |-> "receiverPost", f |-> f]
  /\ toOpener' = IF receiverState[f] = "connected"
                 THEN [toOpener EXCEPT ![f] = Append(@, m)] ELSE toOpener
  /\ UNCHANGED <<globalVars, facadeVars, createVars, castVars, windowVars, pageVars,
                 toWindow, appVars, closeCalls, released, thrown, job>>
  /\ UNCHANGED <<bootVars, strangers>>

\* ---- PresentationSession (facade) operations

\* postMessage without the check of this.session
FacadeHoldsSession_Unchecked(f) == TRUE

\* the check "if (!this.session) return" of postMessage
FacadeHoldsSession(f) == facadeSession[f] # "none"

\* PresentationSession.prototype.postMessage, down to the inner session's
\* postMessage (CastPresentationSession or WindowPresentationSession)
postMessage(f, m) ==
  /\ job = NoJob
  /\ f <= nFacades
  /\ sends < MaxSends
  /\ sends' = sends + 1
  /\ lastCall' = [op |-> "postMessage", f |-> f]
  /\ IF ~FacadeHoldsSession(f) \/ facadeState[f] = "disconnected"
     THEN UNCHANGED <<castSent, toWindow, thrown>>
     ELSE /\ thrown' = (thrown \/ facadeSession[f] = "none")
          /\ castSent' = IF facadeSession[f] = "cast" /\ castState[f] = "connected"
                         THEN [castSent EXCEPT ![f] = Append(@, m)] ELSE castSent
          /\ toWindow' = IF facadeSession[f] = "window" /\ windowState[f] = "connected"
                         THEN PostToWindow(f, m) ELSE toWindow
  /\ UNCHANGED <<globalVars, facadeVars, createVars, castState, castStopped, castUpdates,
                 lastAlive,
                 windowVars, pageVars, toOpener, appVars, closeCalls, released, job>>
  /\ UNCHANGED <<bootVars, strangers>>

\* close() that keeps the reference
SessionAfterClose_Kept(s) == s

\* what close() leaves in this.session
SessionAfterClose(s) == "none"

\* PresentationSession.prototype.close, down to the inner session's close
close(f) ==
  LET viaWindow == facadeSession[f] = "window" /\ windowState[f] = "connected" IN
  /\ job = NoJob
  /\ f <= nFacades
  /\ closeCalls[f] < MaxCloses
  /\ closeCalls' = [closeCalls EXCEPT ![f] = @ + 1]
  /\ lastCall' = [op |-> "close", f |-> f]
  /\ released' = [released EXCEPT ![f] = @ \/ facadeSession[f] # "none"]
  /\ IF facadeSession[f] = "none"
     THEN UNCHANGED facadeSession
     ELSE facadeSession' = [facadeSession EXCEPT ![f] = SessionAfterClose(@)]
  \* CastPresentationSession.prototype.close: this.session.stop()
  /\ castStopped' = IF facadeSession[f] = "cast" /\ castState[f] = "connected"
                    THEN [castStopped EXCEPT ![f] = TRUE] ELSE castStopped
  \* WindowPresentationSession.prototype.close
  /\ presentationWindow' = IF viaWindow THEN [presentationWindow EXCEPT ![f] = "closed"]
                           ELSE presentationWindow
  /\ windowState' = IF viaWindow THEN [windowState EXCEPT ![f] = "disconnected"]
                    ELSE windowState
  /\ facadeState' = IF viaWindow THEN [facadeState EXCEPT ![f] = "disconnected"]
                    ELSE facadeState
  /\ stateChanges' = IF viaWindow THEN Notified(f) ELSE stateChanges
  /\ UNCHANGED <<globalVars, nFacades, facadeUrl, facadeOnmessage, facadeOnstatechange,
                 createVars, castState, castSent, castUpdates, lastAlive, windowPromise,
                 windowSessions, replied, readyReceived, pageVars, channelVars,
                 everConnected, received, receiverReceived, sends, thrown, job>>
  /\ UNCHANGED <<bootVars, strangers>>

\* ---- CastPresentationSession events

\* an update listener that takes every update for a sign of life
UpdateState_AlwaysConnected(isAlive) == "connected"

\* that.state = isAlive ? 'connected' : 'disconnected'
UpdateState(isAlive) == IF isAlive THEN "connected" ELSE "disconnected"

\* update listener of the wrapped chrome.cast.Session, for a library that
\* reports at most max updates
UpdateListener(f, isAlive, max) ==
  LET st == UpdateState(isAlive) IN
  /\ job = NoJob
  /\ castPromise[f] = "resolved"
  /\ castUpdates[f] < max
  /\ castUpdates' = [castUpdates EXCEPT ![f] = @ + 1]
  /\ lastAlive' = [lastAlive EXCEPT ![f] = IF isAlive THEN "alive" ELSE "notAlive"]
  /\ castState' = [castState EXCEPT ![f] = st]
  /\ facadeState' = [facadeState EXCEPT ![f] = st]
  /\ stateChanges' = Notified(f)
  /\ everConnected' = [everConnected EXCEPT ![f] = @ \/ st = "connected"]
  /\ UNCHANGED <<globalVars, nFacades, facadeUrl, facadeSession, facadeOnmessage,
                 facadeOnstatechange, createVars, castSent, castStopped, windowVars,
                 pageVars, channelVars, received, receiverReceived, callVars, job>>
  /\ UNCHANGED <<bootVars, strangers>>

castUpdate(f, isAlive) == UpdateListener(f, isAlive, MaxUpdates)

\* message listener of the wrapped chrome.cast.Session
castMessage(f, m) ==
  /\ job = NoJob
  /\ castPromise[f] = "resolved"
  /\ sends < MaxSends
  /\ sends' = sends + 1
  /\ lastCall' = [op |-> "castReceiverPost", f |-> f]
  /\ received' = IF facadeOnmessage[f] THEN [received EXCEPT ![f] = Append(@, m)]
                 ELSE received
  /\ UNCHANGED <<globalVars, facadeVars, createVars, castVars, windowVars, pageVars,
                 channelVars, stateChanges, everConnected, receiverReceived, closeCalls,
                 released, thrown, job>>
  /\ UNCHANGED <<bootVars, strangers>>

\* ---- receiver page: Presentation bootstrapper, startReceiver of both
\* ---- transports, CastReceiverSession, and the handler of receiver.js

\* new Presentation() in a page: CastPresentationSession.startReceiver runs at
\* once; the application assigns navigator.presentation.onpresent or not
Presentation(crkey, op, hp) ==
  /\ castStart = "none"
  /\ runningOnChromecast' = crkey
  /\ opener' = op
  /\ presentHandler' = hp
  /\ IF ~crkey
     THEN /\ castStart' = "rejected"
          /\ bootJob' = "fallback"
          /\ UNCHANGED castReceiverManager
     ELSE \* new CastReceiverSession(castReceiverManager); castReceiverManager.start()
          /\ castStart' = "pending"
          /\ castReceiverManager' = "started"
          /\ bootJob' = "none"
  /\ UNCHANGED <<windowStart, listening, pageLoaded, pageUnloaded, sessionVars, outVars,
                 slidyVars, inbound, lastInbound, receiverCalls, controllerVars, postVars>>

\* a startReceiver that never takes the page for a regular one
NoOpener_Never(op) == FALSE

\* "if (!window.opener)": the page was not opened by another window
NoOpener(op) == ~op

\* rejection handler of the first then(): WindowPresentationSession.startReceiver
WindowStartReceiver ==
  /\ bootJob = "fallback"
  /\ IF NoOpener(opener)
     THEN /\ windowStart' = "rejected"
          /\ bootJob' = "notreceiver"
          /\ UNCHANGED listening
     ELSE /\ windowStart' = "pending"
          /\ listening' = TRUE
          /\ bootJob' = "none"
  /\ UNCHANGED <<runningOnChromecast, opener, castStart, castReceiverManager, pageLoaded,
                 pageUnloaded, presentHandler, sessionVars, outVars, slidyVars, inbound,
                 lastInbound,
                 receiverCalls, controllerVars, postVars>>

\* rejection handler of the second then(): the page is not a receiver
NotReceiver ==
  /\ bootJob = "notreceiver"
  /\ bootJob' = "none"
  /\ UNCHANGED <<startVars, sessionVars, outVars, slidyVars, inbound, lastInbound,
                 receiverCalls,
                 controllerVars, postVars>>

\* castReceiverManager.onReady: resolve(session)
onReady ==
  /\ bootJob = "none"
  /\ castReceiverManager = "started"
  /\ castReceiverManager' = "ready"
  /\ castStart' = "resolved"
  /\ bootSession' = "cast"
  /\ bootState' = "connected"
  /\ bootJob' = "present"
  /\ UNCHANGED <<runningOnChromecast, opener, windowStart, listening, pageLoaded,
                 pageUnloaded, presentHandler, presentEvents, presentedSession,
                 bootOnmessage, bootOnstatechange, bootStateChanges, outVars, slidyVars,
                 inbound, lastInbound, receiverCalls, controllerVars, postVars>>

\* a 'load' listener that announces the page as ready
LoadToken_Ready == "presentationready"

\* window.opener.postMessage('ispresentation', '*')
LoadToken == "ispresentation"

\* 'load' listener of WindowPresentationSession.startReceiver
OnLoad ==
  /\ bootJob = "none"
  /\ windowStart \in {"pending", "resolved"}
  /\ ~pageLoaded /\ ~pageUnloaded
  /\ pageLoaded' = TRUE
  /\ openerInbox' = Append(openerInbox, LoadToken)
  /\ UNCHANGED <<runningOnChromecast, opener, castStart, windowStart, castReceiverManager,
                 listening, pageUnloaded, presentHandler, sessionVars, broadcasts,
                 openerClosed, slidyVars, bootJob, inbound, lastInbound, receiverCalls,
                 controllerVars, postVars>>

\* 'unload' listener of WindowPresentationSession.startReceiver
OnUnload ==
  /\ bootJob = "none"
  /\ windowStart \in {"pending", "resolved"}
  /\ ~pageUnloaded
  /\ pageUnloaded' = TRUE
  /\ openerInbox' = Append(openerInbox, "receivershutdown")
  /\ UNCHANGED <<runningOnChromecast, opener, castStart, windowStart, castReceiverManager,
                 listening, pageLoaded, presentHandler, sessionVars, broadcasts,
                 openerClosed, slidyVars, bootJob, inbound, lastInbound, receiverCalls,
                 controllerVars, postVars>>

\* a bootstrapper that never dispatches the event
DispatchesPresent_Never(handler) == FALSE

\* "if (that.onpresent)": the event is dispatched to the assigned handler
DispatchesPresent(handler) == handler

\* a bootstrapper that posts 'presentationready' to a window opener only
SendsReady_WindowOnly(session) == session = "window"

\* the transports through which the bootstrapper posts 'presentationready'
SendsReady(session) == session \in {"cast", "window"}

\* success handler of the second then(): dispatch onpresent (receiver.js
\* assigns session.onmessage; an application may assign onstatechange), then
\* session.postMessage('presentationready')
Present(hs) ==
  /\ bootJob = "present"
  /\ bootJob' = "none"
  /\ hs => presentHandler
  /\ IF DispatchesPresent(presentHandler)
     THEN /\ presentEvents' = presentEvents + 1
          /\ presentedSession' = bootSession
          /\ bootOnmessage' = TRUE
          /\ bootOnstatechange' = hs
     ELSE UNCHANGED <<presentEvents, presentedSession, bootOnmessage, bootOnstatechange>>
  /\ openerInbox' = IF SendsReady(bootSession) /\ bootSession = "window"
                       /\ bootState = "connected"
                    THEN Append(openerInbox, "presentationready") ELSE openerInbox
  /\ broadcasts' = IF SendsReady(bootSession) /\ bootSession = "cast"
                      /\ bootState = "connected"
                   THEN Append(broadcasts, "presentationready") ELSE broadcasts
  /\ UNCHANGED <<startVars, bootSession, bootState, bootStateChanges, openerClosed,
                 slidyVars, inbound, lastInbound, receiverCalls, controllerVars, postVars>>

\* the executor lookup of receiver.js: controlledSlidy[message.cmd] is a function
NamesOperation(cmd) == cmd \in Operations

\* presentationSession.onmessage of receiver.js applied to message d
AppOnmessage(d, params) ==
  IF d \notin Commands
  THEN UNCHANGED <<iframeSrc, slidyCalls, appThrown>>   \* no cmd: return
  ELSE IF d = "open"
  THEN /\ iframeSrc' = "url"
       /\ UNCHANGED <<slidyCalls, appThrown>>
  ELSE IF ~controlledSlidy
  THEN UNCHANGED <<iframeSrc, slidyCalls, appThrown>>
  ELSE IF NamesOperation(d)
  THEN /\ slidyCalls' = Append(slidyCalls,
                          [cmd |-> d, args |-> IF params = "absent" THEN <<>> ELSE <<1>>])
       /\ UNCHANGED <<iframeSrc, appThrown>>
  ELSE \* undefined.apply(...): TypeError
       /\ appThrown' = TRUE
       /\ UNCHANGED <<iframeSrc, slidyCalls>>

\* a message event from window.opener is dispatched in the page
OpenerMessage(d, params) ==
  /\ bootJob = "none"
  /\ opener /\ ~pageUnloaded
  /\ inbound < MaxInbound
  \* the controller replies 'presentation' to 'ispresentation', once, and
  \* sends payloads once it has received 'presentationready'
  /\ d = "presentation" =>
       (listening /\ "ispresentation" \in {openerInbox[i] : i \in DOMAIN openerInbox})
  /\ d \in Commands => "presentationready" \in {openerInbox[i] : i \in DOMAIN openerInbox}
  /\ d \notin Commands => params = "absent"
  /\ inbound' = inbound + 1
  /\ lastInbound' = [d |-> d, params |-> params]
  /\ IF listening /\ d = "presentation"
     THEN \* messageEventListener: resolve(new WindowPresentationSession(window.opener))
          /\ listening' = FALSE
          /\ windowStart' = "resolved"
          /\ bootSession' = "window"
          /\ bootState' = "connected"
          /\ bootJob' = "present"
          /\ UNCHANGED <<bootStateChanges, slidyVars>>
     ELSE /\ UNCHANGED <<listening, windowStart, bootSession, bootJob>>
          /\ IF bootSession = "window" /\ ~SessionForwards(d)
             THEN /\ bootState' = "disconnected"
                  /\ bootStateChanges' = IF bootOnstatechange THEN bootStateChanges + 1
                                         ELSE bootStateChanges
                  /\ UNCHANGED slidyVars
             ELSE /\ UNCHANGED <<bootState, bootStateChanges, controlledSlidy>>
                  /\ IF bootSession = "window" /\ bootOnmessage
                     THEN AppOnmessage(d, params)
                     ELSE UNCHANGED <<iframeSrc, slidyCalls, appThrown>>
  /\ UNCHANGED <<runningOnChromecast, opener, castStart, castReceiverManager, pageLoaded,
                 pageUnloaded, presentHandler, presentEvents, presentedSession,
                 bootOnmessage, bootOnstatechange, outVars, receiverCalls,
                 controllerVars, postVars>>

\* 'message' listener of the Cast message bus (CastReceiverSession)
BusMessage(d, params) ==
  /\ bootJob = "none"
  /\ castReceiverManager = "ready"
  /\ inbound < MaxInbound
  /\ inbound' = inbound + 1
  /\ lastInbound' = [d |-> d, params |-> params]
  /\ IF bootOnmessage THEN AppOnmessage(d, params)
                      ELSE UNCHANGED <<iframeSrc, slidyCalls, appThrown>>
  /\ UNCHANGED <<startVars, sessionVars, outVars, controlledSlidy, bootJob, receiverCalls,
                 controllerVars, postVars>>

\* iframe.onload of receiver.js
IframeOnload ==
  /\ bootJob = "none"
  /\ castStart # "none"
  /\ ~controlledSlidy
  /\ controlledSlidy' = TRUE
  /\ UNCHANGED <<startVars, sessionVars, outVars, iframeSrc, slidyCalls, appThrown,
                 bootJob, inbound, lastInbound, receiverCalls, controllerVars, postVars>>

\* a close that does not test the state
CloseActs_Always(state) == TRUE

\* "if (this.state !== 'connected') return" of close
CloseActs(state) == state = "connected"

\* the receiver application calls close() on the session onpresent gave it:
\* CastReceiverSession.prototype.close or WindowPresentationSession.prototype.close
ReceiverClose ==
  /\ bootJob = "none"
  /\ presentedSession # "none"
  /\ receiverCalls < MaxReceiverCalls
  /\ receiverCalls' = receiverCalls + 1
  /\ IF ~CloseActs(bootState)
     THEN UNCHANGED <<bootState, bootStateChanges, castReceiverManager, openerClosed>>
     ELSE /\ bootState' = "disconnected"
          /\ IF presentedSession = "cast"
             THEN /\ castReceiverManager' = "stopped"
                  /\ UNCHANGED <<bootStateChanges, openerClosed>>
             ELSE /\ openerClosed' = TRUE
                  /\ bootStateChanges' = IF bootOnstatechange THEN bootStateChanges + 1
                                         ELSE bootStateChanges
                  /\ UNCHANGED castReceiverManager
  /\ UNCHANGED <<runningOnChromecast, opener, castStart, windowStart, listening,
                 pageLoaded, pageUnloaded, presentHandler, presentEvents, presentedSession,
                 bootSession, bootOnmessage, bootOnstatechange, broadcasts, openerInbox,
                 slidyVars, bootJob, inbound, lastInbound, controllerVars, postVars>>

\* a postMessage that does not test the state
PostSends_Always(state) == TRUE

\* "if (this.state !== 'connected') return" of postMessage
PostSends(state) == state = "connected"

\* the receiver application calls postMessage(m) on the session onpresent gave
\* it: CastReceiverSession.prototype.postMessage or
\* WindowPresentationSession.prototype.postMessage
ReceiverPost(m) ==
  /\ bootJob = "none"
  /\ presentedSession # "none"
  /\ receiverPosts < MaxReceiverPosts
  /\ receiverPosts' = receiverPosts + 1
  /\ lastPost' = m
  /\ broadcasts' = IF presentedSession = "cast" /\ PostSends(bootState)
                   THEN Append(broadcasts, m) ELSE broadcasts
  /\ openerInbox' = IF presentedSession = "window" /\ PostSends(bootState)
                    THEN Append(openerInbox, m) ELSE openerInbox
  /\ UNCHANGED <<startVars, sessionVars, openerClosed, slidyVars, bootJob, inbound,
                 lastInbound, receiverCalls, controllerVars>>

\* ---- specification

Next ==
  \/ \E loaded \in BOOLEAN : OnGCastApiAvailable(loaded)
  \/ \E url \in Urls, id \in CastIds : registerCastApplication(url, id)
  \/ \E url \in Urls, hm \in BOOLEAN : requestSession(url, hm)
  \/ \E f \in Facades : initializeSuccess(f)
  \/ \E f \in Facades : initializeError(f)
  \/ \E f \in Facades : sessionListener(f)
  \/ \E f \in Facades, available \in BOOLEAN : receiverListener(f, available)
  \/ \E f \in Facades : requestSessionSuccess(f)
  \/ \E f \in Facades : requestSessionError(f)
  \/ \E w \in {"open", "null"}, hp \in BOOLEAN : RunFallback(w, hp)
  \/ RunBind
  \/ RunFail
  \/ \E f \in Facades : ControllerMessage(f)
  \/ \E f \in Facades : PageLoad(f)
  \/ \E f \in Facades, early \in Payloads \cup {"none"} : ReceiverMessage(f, early)
  \/ \E f \in Facades : PageUnload(f)
  \/ \E f \in Facades, hp \in BOOLEAN : PageReload(f, hp)
  \/ \E f \in Facades, m \in Payloads : ReceiverPostMessage(f, m)
  \/ \E f \in Facades, m \in Payloads : postMessage(f, m)
  \/ \E f \in Facades : close(f)
  \/ \E f \in Facades, isAlive \in BOOLEAN : castUpdate(f, isAlive)
  \/ \E f \in Facades, m \in Payloads : castMessage(f, m)

Spec == Init /\ [][Next]_vars

\* the negotiation of several requests made one after the other, without the
\* traffic of the sessions
NextCreate ==
  \/ \E loaded \in BOOLEAN : OnGCastApiAvailable(loaded)
  \/ \E url \in Urls, id \in CastIds : registerCastApplication(url, id)
  \/ \E url \in Urls, hm \in BOOLEAN : Request(url, hm, MaxCreates)
  \/ \E f \in Facades : initializeSuccess(f)
  \/ \E f \in Facades : initializeError(f)
  \/ \E f \in Facades : sessionListener(f)
  \/ \E f \in Facades, available \in BOOLEAN : receiverListener(f, available)
  \/ \E f \in Facades : requestSessionSuccess(f)
  \/ \E f \in Facades : requestSessionError(f)
  \/ \E w \in {"open", "null"}, hp \in BOOLEAN : RunFallback(w, hp)
  \/ RunBind
  \/ RunFail

SpecCreate == Init /\ [][NextCreate]_vars

\* the receiver page on its own: the bootstrapper and what reaches it
NextReceiver ==
  \/ \E crkey \in BOOLEAN, op \in BOOLEAN, hp \in BOOLEAN : Presentation(crkey, op, hp)
  \/ WindowStartReceiver
  \/ NotReceiver
  \/ onReady
  \/ OnLoad
  \/ OnUnload
  \/ \E hs \in BOOLEAN : Present(hs)
  \/ \E d \in Commands \cup {"presentation"}, params \in Params : OpenerMessage(d, params)
  \/ \E d \in Commands, params \in Params : BusMessage(d, params)
  \/ IframeOnload
  \/ ReceiverClose
  \/ \E m \in Payloads : ReceiverPost(m)

SpecReceiver == Init /\ [][NextReceiver]_vars

\* the handshake and the traffic of window presentations, in a browser where
\* other windows also post messages to the controller and to the receiver page
NextWindow ==
  \/ \E url \in Urls, hm \in BOOLEAN : requestSession(url, hm)
  \/ \E w \in {"open", "null"}, hp \in BOOLEAN : RunFallback(w, hp)
  \/ RunBind
  \/ RunFail
  \/ \E f \in Facades : ControllerMessage(f)
  \/ \E f \in Facades : PageLoad(f)
  \/ \E f \in Facades, early \in Payloads \cup {"none"} : ReceiverMessage(f, early)
  \/ \E f \in Facades : PageUnload(f)
  \/ \E f \in Facades, hp \in BOOLEAN : PageReload(f, hp)
  \/ \E f \in Facades, m \in Payloads : ReceiverPostMessage(f, m)
  \/ \E f \in Facades, m \in Payloads : postMessage(f, m)
  \/ \E f \in Facades : close(f)
  \/ \E f \in Facades, d \in Tokens : StrangerMessage(f, d)
  \/ \E f \in Facades, d \in Tokens : StrangerToPage(f, d)

SpecWindow == Init /\ [][NextWindow]_vars

\* Cast presentations whose library reports several liveness updates
NextCast ==
  \/ \E loaded \in BOOLEAN : OnGCastApiAvailable(loaded)
  \/ \E url \in Urls, id \in CastIds : registerCastApplication(url, id)
  \/ \E url \in Urls, hm \in BOOLEAN : requestSession(url, hm)
  \/ \E f \in Facades : initializeSuccess(f)
  \/ \E f \in Facades : initializeError(f)
  \/ \E f \in Facades : sessionListener(f)
  \/ \E f \in Facades, available \in BOOLEAN : receiverListener(f, available)
  \/ \E f \in Facades : requestSessionSuccess(f)
  \/ \E f \in Facades : requestSessionError(f)
  \/ \E w \in {"open", "null"}, hp \in BOOLEAN : RunFallback(w, hp)
  \/ RunBind
  \/ RunFail
  \/ \E f \in Facades, m \in Payloads : postMessage(f, m)
  \/ \E f \in Facades : close(f)
  \/ \E f \in Facades, isAlive \in BOOLEAN : UpdateListener(f, isAlive, MaxLiveness)
  \/ \E f \in Facades, m \in Payloads : castMessage(f, m)

SpecCast == Init /\ [][NextCast]_vars

\* window presentations whose window shows a document that also posts
\* handshake tokens to its opener on its own
NextOpened ==
  \/ \E url \in Urls, hm \in BOOLEAN : requestSession(url, hm)
  \/ \E w \in {"open", "null"}, hp \in BOOLEAN : RunFallback(w, hp)
  \/ RunBind
  \/ RunFail
  \/ \E f \in Facades : ControllerMessage(f)
  \/ \E f \in Facades : PageLoad(f)
  \/ \E f \in Facades, early \in Payloads \cup {"none"} : ReceiverMessage(f, early)
  \/ \E f \in Facades : PageUnload(f)
  \/ \E f \in Facades, m \in Payloads : postMessage(f, m)
  \/ \E f \in Facades, d \in Tokens : WindowPosts(f, d)

SpecOpened == Init /\ [][NextOpened]_vars

\* several requests that each fall back to a window of their own, and the
\* messages of their receiver pages
NextWindows ==
  \/ \E url \in Urls, hm \in BOOLEAN : Request(url, hm, MaxCreates)
  \/ \E w \in {"open", "null"}, hp \in BOOLEAN : RunFallback(w, hp)
  \/ RunBind
  \/ RunFail
  \/ \E f \in Facades : ControllerMessage(f)
  \/ \E f \in Facades : PageLoad(f)
  \/ \E f \in Facades, early \in Payloads \cup {"none"} : ReceiverMessage(f, early)
  \/ \E f \in Facades : PageUnload(f)
  \/ \E f \in Facades, m \in Payloads : ReceiverPostMessage(f, m)

SpecWindows == Init /\ [][NextWindows]_vars

\* the receiver application of the window of f calls close() on its session
\* (WindowPresentationSession.prototype.close with remoteWindow = window.opener):
\* window.opener.close() is asked for, which a browser ignores for a window
\* that no script opened; nothing is posted to the opener
ReceiverWindowClose(f) ==
  /\ job = NoJob
  /\ PageHasSession(f)
  /\ receiverState' = IF CloseActs(receiverState[f])
                      THEN [receiverState EXCEPT ![f] = "disconnected"]
                      ELSE receiverState
  /\ UNCHANGED <<globalVars, facadeVars, createVars, castVars, windowVars, page,
                 onpresent, receiverOnmessage, reloads, channelVars, appVars, callVars,
                 job>>
  /\ UNCHANGED <<bootVars, strangers>>

\* window presentations in a browser that runs every pending promise reaction
\* and dispatches every queued message event
NextShutdown ==
  \/ \E url \in Urls, hm \in BOOLEAN : requestSession(url, hm)
  \/ \E w \in {"open", "null"}, hp \in BOOLEAN : RunFallback(w, hp)
  \/ RunBind
  \/ RunFail
  \/ \E f \in Facades : ControllerMessage(f)
  \/ \E f \in Facades : PageLoad(f)
  \/ \E f \in Facades, early \in Payloads \cup {"none"} : ReceiverMessage(f, early)
  \/ \E f \in Facades : PageUnload(f)
  \/ \E f \in Facades, hp \in BOOLEAN : PageReload(f, hp)
  \/ \E f \in Facades, m \in Payloads : ReceiverPostMessage(f, m)
  \/ \E f \in Facades, m \in Payloads : postMessage(f, m)
  \/ \E f \in Facades : close(f)

SpecShutdown ==
  /\ Init
  /\ [][NextShutdown]_vars
  /\ WF_vars(\E w \in {"open", "null"}, hp \in BOOLEAN : RunFallback(w, hp))
  /\ WF_vars(RunBind)
  /\ WF_vars(RunFail)
  /\ \A f \in Facades : WF_vars(ControllerMessage(f))

\* the same, with a receiver application that may close its session
NextCloses ==
  \/ NextShutdown
  \/ \E f \in Facades : ReceiverWindowClose(f)

\* ... and in which, besides, opened pages fire their load event and the
\* message events queued for them are dispatched
SpecHandshake ==
  /\ SpecShutdown
  /\ \A f \in Facades : WF_vars(PageLoad(f))
  /\ \A f \in Facades :
       WF_vars(\E early \in Payloads \cup {"none"} : ReceiverMessage(f, early))

SpecCloses ==
  /\ Init
  /\ [][NextCloses]_vars
  /\ WF_vars(\E w \in {"open", "null"}, hp \in BOOLEAN : RunFallback(w, hp))
  /\ WF_vars(RunBind)
  /\ WF_vars(RunFail)
  /\ \A f \in Facades : WF_vars(ControllerMessage(f))
  /\ \A f \in Facades : WF_vars(PageLoad(f))
  /\ \A f \in Facades :
       WF_vars(\E early \in Payloads \cup {"none"} : ReceiverMessage(f, early))

TypeOK ==
  /\ nFacades \in 0..MaxCreates
  /\ \A f \in Facades :
       /\ facadeSession[f] \in {"none", "cast", "window"}
       /\ facadeState[f] \in {"none", "disconnected", "connected"}
       /\ castPromise[f] \in {"none", "pending", "resolved", "rejected"}
       /\ windowPromise[f] \in {"none", "pending", "resolved", "rejected"}
       /\ page[f] \in {"none", "loading", "waiting", "early", "ready", "gone"}
  /\ sends \in 0..MaxSends
  /\ Len(strangers) <= MaxStrangers

\* ---- claims

Range(q) == {q[i] : i \in DOMAIN q}
Unregistered(url) == castApplications[url] \in {Undefined, ""}
\* the step dispatches the first message queued for the controller from window f
ControllerDispatch(f) == toOpener[f] # <<>> /\ toOpener'[f] = Tail(toOpener[f])
\* the step dispatches the first message queued for the receiver page of f
ReceiverDispatch(f) ==
  /\ toWindow[f] # <<>>
  /\ toWindow'[f] = Tail(toWindow[f])
  /\ page'[f] = page[f]
\* the step is a call of the facade's postMessage on f
PostCall(f) == sends' = sends + 1 /\ lastCall' = [op |-> "postMessage", f |-> f]

C2_LatePathIsNoOp ==
  [][\A f \in Facades :
       castPromise[f] = "resolved" =>
         /\ castWrappers'[f] = castWrappers[f]
         /\ castPromise'[f] = "resolved"
         /\ sessionCreated'[f] = sessionCreated[f]]_vars

\* C3: a request for a URL without a (non-empty) registered identifier, or
\* made while the Cast library is unavailable, rejects Transport A's create at
\* once, with no initialize call and no native session request, and queues
\* the fallback, whose next step invokes window.open.
C3_RejectsWithoutNativeCalls ==
  [][\A f \in Facades :
       /\ (nFacades = f - 1 /\ nFacades' = f
           /\ (~castApiAvailable \/ Unregistered(facadeUrl'[f])))
          => /\ castPromise'[f] = "rejected"
             /\ initialize'[f] = "none"
             /\ requestsIssued'[f] = 0
             /\ job' = [kind |-> "fallback", f |-> f]
       /\ job = [kind |-> "fallback", f |-> f]
          => /\ presentationWindow'[f] # "none"
             /\ initialize'[f] = initialize[f]
             /\ requestsIssued'[f] = requestsIssued[f]]_vars

\* C3 witness: the library is available, the URL is not registered, and the
\* negotiation went on to open the window.
C3_Witness ==
  \E f \in Facades :
    /\ f <= nFacades
    /\ castApiAvailable
    /\ Unregistered(facadeUrl[f])
    /\ presentationWindow[f] = "open"

\* C4: a call of the facade's postMessage while it holds no inner session or
\* its state is not connected sends nothing, raises nothing and changes no
\* state of the program.
C4_PostMessageNoOp ==
  [][\A f \in Facades :
       (PostCall(f) /\ (facadeSession[f] = "none" \/ facadeState[f] # "connected"))
       => UNCHANGED <<globalVars, facadeVars, createVars, castVars, windowVars, pageVars,
                      channelVars, appVars, closeCalls, released, thrown, job>>]_vars

\* C4 witness: postMessage was called on a facade that had released its
\* session while its state was still connected.
C4_Witness ==
  \E f \in Facades :
    /\ lastCall = [op |-> "postMessage", f |-> f]
    /\ facadeSession[f] = "none"
    /\ facadeState[f] = "connected"

\* C5 (as claimed): once close has been called on a facade, the facade holds
\* no inner session.
C5_ClosedHoldsNoSession ==
  \A f \in Facades : closeCalls[f] > 0 => facadeSession[f] = "none"

\* C5 (amended): once close has been called on a facade that held an inner
\* session, the facade holds no inner session from then on and a later
\* postMessage on it sends nothing.
C5_ReleasedHoldsNoSession ==
  [][\A f \in Facades :
       /\ released'[f] => facadeSession'[f] = "none"
       /\ (released[f] /\ PostCall(f)) => UNCHANGED <<castSent, channelVars>>]_vars

\* C5 witness: postMessage was called after a close that released a session.
C5_Witness ==
  \E f \in Facades : released[f] /\ lastCall = [op |-> "postMessage", f |-> f]

\* C6: when both creates have rejected, the facade is disconnected, holds no
\* inner session, and nothing has been sent for it on any transport.
C6_BothFailedStaysDisconnected ==
  \A f \in Facades :
    (castPromise[f] = "rejected" /\ windowPromise[f] = "rejected")
    => /\ facadeState[f] = "disconnected"
       /\ facadeSession[f] = "none"
       /\ ~everConnected[f]
       /\ castSent[f] = <<>>
       /\ toWindow[f] = <<>>

\* C6 witness: both creates rejected, the failure handler has run, and the
\* application then called postMessage on the facade.
C6_Witness ==
  \E f \in Facades :
    /\ castPromise[f] = "rejected"
    /\ windowPromise[f] = "rejected"
    /\ job = NoJob
    /\ lastCall = [op |-> "postMessage", f |-> f]

\* C7: the first "presentationready" from the opened window resolves create
\* with a connected session that the next step binds into the facade; the
\* create promise resolves, and the facade becomes connected, only once
\* "presentationready" has arrived from the window after the controller
\* replied "presentation"; the facade becomes connected at most once.
C7_ConnectedOnceAfterReady ==
  [][\A f \in Facades :
       /\ (ControllerDispatch(f) /\ Head(toOpener[f]) = "presentationready"
           /\ windowPromise[f] = "pending")
          => /\ windowPromise'[f] = "resolved"
             /\ windowState'[f] = "connected"
             /\ job' = [kind |-> "bind", f |-> f]
       /\ (job = [kind |-> "bind", f |-> f] /\ windowPromise[f] = "resolved")
          => (facadeSession'[f] = "window" /\ facadeState'[f] = "connected")
       /\ windowPromise'[f] = "resolved" => (replied'[f] /\ readyReceived'[f])
       /\ (castPromise[f] = "rejected" /\ facadeState'[f] = "connected")
          => /\ windowPromise'[f] = "resolved"
             /\ facadeState[f] # "connected" => ~everConnected[f]]_vars

\* C7 witness: the handshake completed and the facade is connected over the
\* window transport.
C7_Witness ==
  \E f \in Facades :
    /\ facadeSession[f] = "window"
    /\ facadeState[f] = "connected"
    /\ readyReceived[f]

\* C8 (as claimed): "receivershutdown" from the tracked window disconnects a
\* connected window session and fires onStateChange once; on a session that
\* is already disconnected it changes nothing and fires nothing.
C8_SecondShutdownIsNoOp ==
  [][\A f \in Facades :
       (ControllerDispatch(f) /\ Head(toOpener[f]) = "receivershutdown"
        /\ windowSessions[f] >= 1)
       => IF windowState[f] = "connected"
          THEN /\ windowState'[f] = "disconnected"
               /\ facadeState'[f] = "disconnected"
               /\ stateChanges'[f] = stateChanges[f] + 1
          ELSE /\ windowState'[f] = windowState[f]
               /\ facadeState'[f] = facadeState[f]
               /\ stateChanges'[f] = stateChanges[f]]_vars

\* C9 (as claimed): no reserved token is ever given to an application's
\* onMessage handler, on the controller or on the receiver.
C9_TokensNeverDelivered ==
  \A f \in Facades :
    /\ Range(received[f]) \cap Tokens = {}
    /\ Range(receiverReceived[f]) \cap Tokens = {}

C11_CastSuccessNeverOpensWindow ==
  [][\A f \in Facades :
       /\ (requestsPending'[f] < requestsPending[f] /\ castWrappers'[f] > castWrappers[f]
           /\ castPromise[f] = "pending")
          => /\ castPromise'[f] = "resolved"
             /\ castState'[f] = "connected"
             /\ job' = [kind |-> "bind", f |-> f]
       /\ (job = [kind |-> "bind", f |-> f] /\ castPromise[f] = "resolved")
          => /\ facadeSession'[f] = "cast"
             /\ facadeState'[f] = "connected"
             /\ stateChanges'[f] = stateChanges[f] + 1
       /\ castPromise'[f] = "resolved"
          => /\ presentationWindow'[f] = "none"
             /\ windowPromise'[f] = "none"
             /\ page'[f] = "none"]_vars

\* C11 witness: the facade is connected over Cast through a session request
\* that succeeded (no running session was resumed), and no window was opened.
C11_Witness ==
  \E f \in Facades :
    /\ facadeSession[f] = "cast"
    /\ facadeState[f] = "connected"
    /\ requestsIssued[f] > 0
    /\ ~sessionListenerCalled[f]
    /\ Registered(facadeUrl[f])
    /\ presentationWindow[f] = "none"

InOpenerInbox(m) == m \in Range(openerInbox)
InBroadcasts(m) == m \in Range(broadcasts)

\* C12: the bootstrapper runs Transport A's startReceiver first and Transport
\* B's only once A's has rejected; in a page that is neither on a Cast device
\* nor opened by another window both reject, no onpresent is dispatched and
\* no message is sent to anyone.
C12_ReceiverOrderAndSilence ==
  /\ windowStart # "none" => castStart = "rejected"
  /\ bootJob = "fallback" => (castStart = "rejected" /\ windowStart = "none")
  /\ (castStart # "none" /\ ~runningOnChromecast /\ ~opener)
     => /\ castStart = "rejected"
        /\ bootJob = "none" => windowStart = "rejected"
        /\ presentEvents = 0
        /\ bootSession = "none"
        /\ openerInbox = <<>>
        /\ broadcasts = <<>>
        /\ ~listening

\* C12 witness: a regular page whose application assigned onpresent; both
\* startReceiver calls rejected and the chain has ended.
C12_Witness ==
  /\ castStart = "rejected"
  /\ windowStart = "rejected"
  /\ bootJob = "none"
  /\ presentHandler

\* C13: when either startReceiver resolves, the next step dispatches onpresent
\* to the assigned handler, once for the page, carrying the session the
\* promise resolved with, and "presentationready" has been sent only if that
\* dispatch has happened.
C13_PresentOnceBeforeReady ==
  [][/\ (bootJob = "present" /\ presentHandler)
        => /\ presentEvents' = 1
           /\ presentedSession' = bootSession
           /\ bootSession \in {"cast", "window"}
     /\ (bootJob' = "none" /\ bootSession' # "none" /\ presentHandler')
        => presentEvents' = 1
     /\ presentEvents' <= 1
     /\ (InOpenerInbox("presentationready")' \/ InBroadcasts("presentationready")')
        => /\ bootJob' = "none"
           /\ presentHandler' => (presentEvents' = 1 /\ presentedSession' = bootSession')
    ]_vars

\* C13 witness: in a window opened by a controller onpresent was dispatched
\* and "presentationready" was posted to the opener.
C13_Witness ==
  /\ presentEvents = 1
  /\ presentedSession = "window"
  /\ InOpenerInbox("presentationready")

\* C14 (as claimed): when the resolved session is the Cast receiver session no
\* "presentationready" is broadcast to the senders.
C14_NoReadyOverCast ==
  bootSession = "cast" => ~InBroadcasts("presentationready")

\* C14 (amended): the bootstrapper sends "presentationready" through the
\* resolved session whatever the transport: posted to the opener for a window
\* session, broadcast to the senders for a Cast receiver session.
C14_ReadySentOnBothTransports ==
  [][bootJob = "present"
     => /\ bootSession = "window"
           => (openerInbox' = Append(openerInbox, "presentationready")
               /\ broadcasts' = broadcasts)
        /\ bootSession = "cast"
           => (broadcasts' = Append(broadcasts, "presentationready")
               /\ openerInbox' = openerInbox)]_vars

\* C14 witness: on a Cast device the bootstrapper has run and
\* "presentationready" was broadcast.
C14_Witness ==
  /\ bootSession = "cast"
  /\ bootJob = "none"
  /\ InBroadcasts("presentationready")

C16_BindMirrorsAndNotifiesOnce ==
  [][\A f \in Facades :
       LET inner == IF windowPromise[f] = "resolved" THEN windowState[f] ELSE castState[f]
       IN
       /\ job = [kind |-> "bind", f |-> f]
          => /\ facadeSession[f] = "none" /\ ~released[f]
             /\ facadeSession'[f] \in {"cast", "window"}
             /\ facadeState'[f] = inner
             /\ stateChanges'[f] = stateChanges[f] + (IF inner = "connected" THEN 1 ELSE 0)
       /\ (facadeSession[f] # "none" \/ released[f])
          => job' # [kind |-> "bind", f |-> f]]_vars

\* C16 witness: the facade was bound to a connected window session and the
\* application has been notified exactly once.
C16_Witness ==
  \E f \in Facades :
    /\ facadeSession[f] = "window"
    /\ facadeState[f] = "connected"
    /\ stateChanges[f] = 1

\* C17 (as claimed): every change of a session's state (inner controller
\* sessions through the facade that mirrors them, the facade itself, and the
\* receiver-side session) comes with one invocation of the onStateChange
\* handler assigned to that session.
C17_StateChangeNotifies ==
  [][/\ \A f \in Facades :
          (facadeState[f] # "none" /\ facadeState'[f] # facadeState[f]
           /\ facadeOnstatechange[f])
          => stateChanges'[f] = stateChanges[f] + 1
     /\ (bootState # "none" /\ bootState' # bootState /\ bootOnstatechange)
        => bootStateChanges' = bootStateChanges + 1]_vars

\* C18 (as claimed): a message given to the onmessage handler of receiver.js
\* raises no exception; one whose cmd names no operation of the executor
\* changes nothing; one whose cmd names an operation of the loaded executor
\* invokes it with params, or with no argument when params is absent; "open"
\* loads the url and invokes nothing.
C18_UnknownCommandIgnored ==
  [][(inbound' = inbound + 1 /\ bootOnmessage /\ bootSession # "none"
      /\ lastInbound'.d \in Commands)
     => LET d == lastInbound'.d
            args == IF lastInbound'.params = "absent" THEN <<>> ELSE <<1>>
        IN
        /\ ~appThrown'
        /\ d \notin Operations \cup {"open"} => UNCHANGED slidyVars
        /\ (d \in Operations /\ controlledSlidy)
           => slidyCalls' = Append(slidyCalls, [cmd |-> d, args |-> args])
        /\ d = "open" => (iframeSrc' = "url" /\ slidyCalls' = slidyCalls)]_vars

\* C19: after registerCastApplication(url, id) the entry of url is id,
\* whatever it was before, the entry of every other url is what it was, and
\* nothing but a registration changes an entry.
C19_RegistrationOverwrites ==
  [][/\ registering' # NoRegistration
        => castApplications'[registering'.url] = registering'.id
     /\ (registering' # NoRegistration
         /\ <<registering, castApplications>>' # <<registering, castApplications>>)
        => /\ registering'.prev = castApplications[registering'.url]
           /\ \A u \in Urls \ {registering'.url} :
                castApplications'[u] = castApplications[u]
     /\ castApplications' # castApplications => registering' # NoRegistration]_vars

\* C19 witness: a url was registered again with another identifier while the
\* other url was registered too.
C19_Witness ==
  /\ registering # NoRegistration
  /\ registering.prev \notin {Undefined, registering.id}
  /\ \A u \in Urls : castApplications[u] # Undefined

\* C20 (as claimed): over all the create calls made, chrome.cast.initialize
\* is called at most once.
C20_InitializeAtMostOnce ==
  Cardinality({f \in Facades : initialize[f] # "none"}) <= 1

\* C21 (as claimed, whatever the probe reported): a create call has issued a
\* native session request only if a capability probe has reported for that
\* call before.
C21_RequestOnlyAfterProbe ==
  \A f \in Facades : requestsIssued[f] > 0 => probes[f] > 0

\* C21 (amended): a create call that initializes the library issues a native
\* session request only in the step in which a capability probe reports for
\* that call; a create call made once the library is initialized issues its
\* native session request at once, with no initialize call and no probe.
C21_RequestAfterProbeOrDirect ==
  [][\A f \in Facades :
       LET creates == nFacades = f - 1 /\ nFacades' = f IN
       /\ requestsIssued'[f] > requestsIssued[f]
          => \/ probes'[f] = probes[f] + 1
             \/ creates /\ castApiInitialized
       /\ (creates /\ castPromise'[f] = "pending" /\ castApiInitialized)
          => (requestsIssued'[f] = 1 /\ initialize'[f] = "none")
       /\ (creates /\ castPromise'[f] = "pending" /\ ~castApiInitialized)
          => (requestsIssued'[f] = 0 /\ initialize'[f] = "pending")]_vars

\* C21 witness: a second create call, made after the library was initialized,
\* has issued its session request without any probe.
C21_Witness ==
  \E f \in Facades :
    /\ requestsIssued[f] > 0
    /\ probes[f] = 0
    /\ initialize[f] = "none"

\* C22 (as claimed): the probe notification that makes create reject issues
\* no native session request.
C22_NoDeviceNoRequest ==
  [][\A f \in Facades :
       (probes'[f] = probes[f] + 1 /\ castPromise[f] = "pending"
        /\ castPromise'[f] = "rejected")
       => requestsIssued'[f] = requestsIssued[f]]_vars

\* C23 (as claimed): once the promise of a create call has settled, no later
\* native callback of that call issues a native session request, constructs a
\* session wrapper or sets the closure's flag.
C23_LateCallbacksIgnored ==
  [][\A f \in Facades :
       castPromise[f] \in {"resolved", "rejected"}
       => /\ requestsIssued'[f] = requestsIssued[f]
          /\ castWrappers'[f] = castWrappers[f]
          /\ sessionCreated'[f] = sessionCreated[f]
          /\ castPromise'[f] = castPromise[f]]_vars

\* C24: the wrapper a create call resolves with is connected; each liveness
\* update sets the state of the session, and the facade that mirrors it, to
\* connected when alive and to disconnected when not, and invokes the
\* onStateChange handler once, on the transition to disconnected as well.
C24_UpdateSetsStateAndNotifies ==
  [][\A f \in Facades :
       /\ (castPromise[f] = "pending" /\ castPromise'[f] = "resolved")
          => castState'[f] = "connected"
       /\ castUpdates'[f] = castUpdates[f] + 1
          => /\ castState'[f] = IF lastAlive'[f] = "alive" THEN "connected"
                                ELSE "disconnected"
             /\ facadeState'[f] = castState'[f]
             /\ facadeOnstatechange[f] => stateChanges'[f] = stateChanges[f] + 1
       /\ castState'[f] # castState[f]
          => \/ castUpdates'[f] = castUpdates[f] + 1
             \/ castPromise[f] = "pending" /\ castPromise'[f] = "resolved"]_vars

\* C24 witness: a connected Cast session received a not-alive update; the
\* session and the facade are disconnected and the application was notified
\* at the bind and at the update.
C24_Witness ==
  \E f \in Facades :
    /\ facadeSession[f] = "cast"
    /\ lastAlive[f] = "notAlive"
    /\ castState[f] = "disconnected"
    /\ facadeState[f] = "disconnected"
    /\ stateChanges[f] = 2

\* C25: close on a window session that is not connected changes nothing; on
\* a connected one it closes the remote window, sets the state to
\* disconnected and invokes onStateChange once, so that a second close
\* closes nothing and notifies nobody.
C25_WindowCloseOnce ==
  [][(receiverCalls' = receiverCalls + 1 /\ presentedSession = "window")
     => IF bootState = "connected"
        THEN /\ openerClosed'
             /\ bootState' = "disconnected"
             /\ bootStateChanges' = bootStateChanges + (IF bootOnstatechange THEN 1 ELSE 0)
        ELSE UNCHANGED <<startVars, sessionVars, outVars, slidyVars, bootJob, inbound,
                         lastInbound>>]_vars

\* C25 witness: the receiver application closed its window session twice and
\* its onstatechange handler was called once.
C25_Witness ==
  /\ presentedSession = "window"
  /\ receiverCalls = 2
  /\ bootOnstatechange
  /\ openerClosed
  /\ bootState = "disconnected"
  /\ bootStateChanges = 1

exceptStrangers == <<globalVars, facadeVars, createVars, castVars, windowVars, pageVars,
                     channelVars, appVars, callVars, job, bootVars>>

\* C27: handshake tokens advance the window handshake only when they come
\* from the exact peer.  A message event from any other window changes
\* nothing in the controller nor in the receiver page; the controller
\* replies 'presentation' only while it dispatches 'ispresentation' from the
\* window its create call opened, resolves create only while it dispatches
\* 'presentationready' from that window, and the receiver page gets its
\* session only while it dispatches 'presentation' from its opener.
C27_TokensOnlyFromPeer ==
  [][ /\ strangers' # strangers => UNCHANGED exceptStrangers
      /\ \A f \in Facades :
           /\ (~replied[f] /\ replied'[f]) =>
                /\ ControllerDispatch(f)
                /\ Head(toOpener[f]) = "ispresentation"
           /\ (windowPromise[f] = "pending" /\ windowPromise'[f] = "resolved") =>
                /\ ControllerDispatch(f)
                /\ Head(toOpener[f]) = "presentationready"
           /\ (page[f] \in {"loading", "waiting"} /\ page'[f] \in {"early", "ready"}) =>
                /\ toWindow[f] # <<>>
                /\ Head(toWindow[f]) = "presentation"
                /\ toWindow'[f] = Tail(toWindow[f]) ]_vars

\* C27 witness: another window sent 'presentationready' to the controller and
\* 'presentation' to the receiver page while create was pending, no reply
\* had been made and the page had no session; create is still pending and
\* the page still waits.
C27_Witness ==
  \E f \in Facades :
    /\ strangers = << [to |-> "controller", d |-> "presentationready"],
                      [to |-> "page", d |-> "presentation"] >>
    /\ windowPromise[f] = "pending"
    /\ ~replied[f]
    /\ page[f] = "waiting"
    /\ toWindow[f] = <<>>

ShutdownPending(f) ==
  /\ facadeSession[f] = "window"
  /\ windowState[f] = "connected"
  /\ facadeOnstatechange[f]
  /\ page[f] = "gone"

\* C29: whenever the receiver page unloads while the controller holds a
\* connected window session for its window, and queued message events are
\* delivered, the session and its facade eventually are disconnected and the
\* facade's onstatechange has been called once more.
C29_ShutdownDisconnects ==
  \A f \in Facades : \A n \in 0..(MaxCloses + MaxReloads + 2) :
    (ShutdownPending(f) /\ stateChanges[f] = n) ~>
      (/\ windowState[f] = "disconnected"
       /\ facadeState[f] = "disconnected"
       /\ stateChanges[f] > n)

\* C29 witness: the page unloaded, 'receivershutdown' was dispatched in the
\* controller, and the session nobody closed is disconnected, the handler
\* having been called at connection and at disconnection.
C29_Witness ==
  \E f \in Facades :
    /\ facadeSession[f] = "window"
    /\ page[f] = "gone"
    /\ toOpener[f] = <<>>
    /\ closeCalls[f] = 0
    /\ windowState[f] = "disconnected"
    /\ facadeState[f] = "disconnected"
    /\ stateChanges[f] = 2

\* C30: the state of a facade that holds an inner session equals the state
\* of that session; a facade that was never given a session is disconnected;
\* and the state of a facade is always 'disconnected' or 'connected'.
C30_FacadeMirrorsInner ==
  \A f \in Facades : f <= nFacades =>
    /\ facadeSession[f] = "cast" => facadeState[f] = castState[f]
    /\ facadeSession[f] = "window" => facadeState[f] = windowState[f]
    /\ (facadeSession[f] = "none" /\ ~released[f]) => facadeState[f] = "disconnected"
    /\ facadeState[f] \in {"disconnected", "connected"}

\* C30 witness: a facade that was connected through a Cast session holds it
\* after the session ended, and both are disconnected.
C30_Witness ==
  \E f \in Facades :
    /\ facadeSession[f] = "cast"
    /\ everConnected[f]
    /\ castState[f] = "disconnected"
    /\ facadeState[f] = "disconnected"

\* C31: over the life of a facade at most one inner session is bound to it
\* and at most one window is opened for it.  The success handler runs only
\* for a facade that holds no session and never released one, a session held
\* is only ever released, the rejection handler that opens the window runs
\* only for a facade that has no window, and a window, once opened, is only
\* ever closed.
C31_OneSessionOneWindow ==
  [][ \A f \in Facades :
        /\ job = [kind |-> "bind", f |-> f] =>
             (facadeSession[f] = "none" /\ ~released[f])
        /\ (facadeSession'[f] # facadeSession[f]) =>
             \/ job = [kind |-> "bind", f |-> f]
             \/ facadeSession'[f] = "none"
        /\ job = [kind |-> "fallback", f |-> f] => presentationWindow[f] = "none"
        /\ (presentationWindow'[f] # presentationWindow[f]) =>
             \/ job = [kind |-> "fallback", f |-> f]
             \/ (presentationWindow[f] = "open" /\ presentationWindow'[f] = "closed") ]_vars

\* C31 witness: the window sent 'presentationready' a second time, after a
\* reload, to a controller whose facade already held the window session.
C31_Witness ==
  \E f \in Facades :
    /\ facadeSession[f] = "window"
    /\ presentationWindow[f] = "open"
    /\ reloads[f] = 1
    /\ windowSessions[f] = 2

\* C32: a session or facade that was connected and has become disconnected
\* never becomes connected again.
C32_NoReconnection ==
  [][ \A f \in Facades :
        /\ castState[f] = "disconnected" => castState'[f] # "connected"
        /\ windowState[f] = "disconnected" => windowState'[f] # "connected"
        /\ (everConnected[f] /\ facadeState[f] = "disconnected") =>
             facadeState'[f] # "connected" ]_vars

\* what the controller holds for facade g: its state, its sessions, its
\* handlers' invocations and what it posted to its window
controllerSide(g) ==
  <<facadeSession[g], facadeState[g], facadeOnmessage[g], facadeOnstatechange[g],
    windowPromise[g], windowSessions[g], windowState[g], replied[g], readyReceived[g],
    stateChanges[g], received[g], toWindow[g], presentationWindow[g]>>

\* C33: with two facades that each opened their own window, the dispatch of
\* a message from the window of one of them leaves the state, the sessions
\* and the handlers of the other untouched.
C33_WindowsAreIndependent ==
  [][ \A f, g \in Facades :
        (f # g /\ ControllerDispatch(f)) => controllerSide(g)' = controllerSide(g) ]_vars

\* C33 witness: two facades are connected through their own windows; the
\* first window has shut down and its payload was delivered before, while
\* the second facade is still connected and its handler has received nothing.
C33_Witness ==
  /\ facadeSession[1] = "window" /\ facadeSession[2] = "window"
  /\ facadeState[1] = "disconnected" /\ windowState[1] = "disconnected"
  /\ received[1] # <<>>
  /\ facadeState[2] = "connected" /\ windowState[2] = "connected"
  /\ facadeOnmessage[2] /\ received[2] = <<>>
  /\ toOpener[1] = <<>> /\ toOpener[2] = <<>>

\* C34 (as claimed): the onStateChange handler is invoked only when the
\* state has changed: an update, a 'receivershutdown' or a failure of the
\* negotiation that leaves the state as it was invokes nothing.
C34_NotifiedOnlyOnChange ==
  [][ \A f \in Facades :
        stateChanges'[f] # stateChanges[f] => facadeState'[f] # facadeState[f] ]_vars

\* C35 (as claimed): the create of the window transport resolves only after
\* the controller has replied 'presentation' to that window, so that
\* 'presentationready' without a preceding 'ispresentation' from the window
\* produces no connected session.
C35_ResolvedOnlyAfterReply ==
  \A f \in Facades :
    (windowPromise[f] = "resolved" \/ windowState[f] = "connected") => replied[f]

\* C36: whenever the facade becomes connected over the window transport,
\* the receiver page has already built its session and dispatched onpresent
\* with it.  The facade becomes connected through a window only after
\* 'presentationready' was dispatched from that window; the page posts that
\* token only in the step in which it builds its connected session and calls
\* the assigned onpresent handler (which assigns session.onmessage), and
\* posts it after everything that handler posted.
C36_ConnectedAfterPresent ==
  [][ \A f \in Facades :
        /\ (facadeState[f] # "connected" /\ facadeState'[f] = "connected"
              /\ facadeSession'[f] = "window") => readyReceived[f]
        /\ (~readyReceived[f] /\ readyReceived'[f]) =>
             (ControllerDispatch(f) /\ Head(toOpener[f]) = "presentationready")
        /\ \A i \in (Len(toOpener[f]) + 1)..Len(toOpener'[f]) :
             toOpener'[f][i] = "presentationready" =>
               /\ i = Len(toOpener'[f])
               /\ ~PageHasSession(f) /\ page'[f] \in {"early", "ready"}
               /\ receiverState'[f] = "connected"
               /\ onpresent[f] => receiverOnmessage'[f] ]_vars

\* C36 witness: the facade is connected over the window transport; the
\* receiver application was given its session through onpresent, assigned
\* onmessage and has posted a payload.
C36_Witness ==
  \E f \in Facades :
    /\ facadeSession[f] = "window"
    /\ facadeState[f] = "connected"
    /\ page[f] = "ready"
    /\ receiverState[f] = "connected"
    /\ receiverOnmessage[f]
    /\ lastCall = [op |-> "receiverPost", f |-> f]

\* C37: if the window opens and its receiver page loads, does not unload
\* and every posted message is delivered, the create of the window transport
\* eventually resolves and the facade eventually becomes connected.
C37_HandshakeCompletes ==
  \A f \in Facades :
    (presentationWindow[f] = "open" /\ windowPromise[f] = "pending") ~>
      \/ (windowPromise[f] = "resolved" /\ facadeSession[f] = "window"
            /\ facadeState[f] = "connected")
      \/ page[f] = "gone"

\* C37 witness: the handshake has run to its end for a page that loaded once
\* and never unloaded, and the facade is connected.
C37_Witness ==
  \E f \in Facades :
    /\ windowPromise[f] = "resolved"
    /\ facadeSession[f] = "window"
    /\ facadeState[f] = "connected"
    /\ page[f] = "ready"
    /\ reloads[f] = 0
    /\ toOpener[f] = <<>> /\ toWindow[f] = <<>>

\* C38 (as claimed): when close returns on a facade that held a connected
\* inner session, the state of the facade is disconnected, whatever the
\* transport.
C38_CloseDisconnectsFacade ==
  [][ \A f \in Facades :
        (closeCalls'[f] = closeCalls[f] + 1 /\ facadeSession[f] # "none"
           /\ facadeState[f] = "connected")
        => facadeState'[f] = "disconnected" ]_vars

\* C39 (as claimed): when the receiver application has closed its window
\* session, the controller-side session tracking that receiver eventually
\* becomes disconnected.
C39_ReceiverCloseReachesController ==
  \A f \in Facades :
    (receiverState[f] = "disconnected" /\ windowState[f] = "connected") ~>
      windowState[f] = "disconnected"

\* C40 (as claimed): a window session that is disconnected never invokes its
\* onmessage handler: a message dispatched from the tracked window after
\* 'receivershutdown' or after close is not given to the application.
C40_DisconnectedDeliversNothing ==
  [][ \A f \in Facades :
        /\ (ControllerDispatch(f) /\ received'[f] # received[f]) =>
             windowState[f] = "connected"
        /\ receiverReceived'[f] # receiverReceived[f] =>
             receiverState[f] = "connected" ]_vars

====
